---- MODULE Spec2Model ----
(***************************************************************************)
(* Model of import_xmodel.py: load() (geometry reconciliation, material    *)
(* compaction, skeleton building, attachment) and join_armatures().        *)
(*                                                                         *)
(* A sub-mesh is imported in steps: one step per iteration of the face     *)
(* loop (first pass), one step for the removal of unused faces, the second *)
(* pass, the vertex weights and to_mesh, and one step per iteration of the *)
(* material removal loop.  The skeleton part is one step for the option    *)
(* gating, one per bone created, one for the attachment and three for      *)
(* join_armatures (the join, the two clean-up loops, the forced parents).  *)
(*                                                                         *)
(* SpecMesh explores the sub-mesh import over all face lists, SpecMat the  *)
(* material removal loop over all usage vectors, SpecSkel the skeleton     *)
(* builder over all bone lists, SpecArm attachment and merge over pairs of *)
(* well-formed skeletons.                                                  *)
(*                                                                         *)
(* Calls into bmesh and bpy are modelled by their effect on the data the   *)
(* importer reads back: bm.faces.new rejects repeated vertices and         *)
(* existing faces, collection[index] raises IndexError past the end, and   *)
(* an attribute assignment writes the attribute.                           *)
(***************************************************************************)
EXTENDS Integers, Sequences, FiniteSets, TLC

\* ---------------------------------------------------------------- bounds
MaxVerts == 3          \* len(sub_mesh.verts) ranges over 1..MaxVerts
MaxFaces == 3          \* len(sub_mesh.faces) ranges over 0..MaxFaces
MaxMeshMaterials == 2  \* len(materials) while geometry is explored
MaxSlots == 5          \* len(materials) while only compaction is explored
MaxTris == 3           \* host triangles while only compaction is explored
MaxBones == 2          \* bones of the imported model, and of the target skeleton

\* None, as stored in dup_verts_mapping
None == -1

VARIABLES
    pc,                     \* position inside load() for the current sub-mesh
    vert_count,             \* len(sub_mesh.verts)
    num_materials,          \* len(materials)
    use_dup_tris,           \* option of load()
    faces,                  \* sub_mesh.faces, as read so far (mutated in place)
    bm_verts,               \* bm.verts: the source vert each host vert was made from
    bm_faces,               \* bm.faces in creation order
    dup_faces,              \* the deferred faces, in deferral order
    dup_verts,              \* source verts that got a duplicate, in allocation order
    dup_verts_mapping,      \* original vertex index -> duplicate index or None
    used_faces,             \* the faces setup_tri recorded
    unused_faces,           \* the faces bm.faces.new rejected in the first pass
    loop_normals,           \* one normal per created loop
    material_usage_counts,  \* per material slot, number of setup_tri calls
    pass2_calls,            \* vertex triples handed to bm.faces.new in the second pass
    deform,                 \* deform layer: <<host vertex, source vert>> written
    mesh_materials,         \* mesh.materials: global slot ids still in the list
    poly_material,          \* material index of each mesh polygon
    material_index,         \* cursor: slots kept so far
    material_usage_index,   \* cursor: next usage counter to examine
    iter_pos,               \* items the iterator over mesh.materials has yielded
    spc,                    \* position inside load() for the skeleton
    error,                  \* the exception that ended load(), "" while none did
    use_armature,           \* option of load()
    use_parents,            \* option of load()
    attach_model,           \* option of load(), reassigned at lines 137-142
    merge_skeleton,         \* option of load(), reassigned at line 145
    has_skel_old,           \* get_armature_for_object(active_object) is not None
    old_bones,              \* bones of skel_old, in collection order
    model_bones,            \* model.bones: name and parent index of each bone
    edit_bones,             \* armature.edit_bones of the new skeleton
    bone_i,                 \* bones the creation loop has handled
    skel_obj,               \* the new skeleton object
    warned,                 \* the "may not merge correctly" warning was printed
    mesh_armature,          \* the armature the mesh objects' modifier points to
    suffixed_children       \* history: <<bone id, X>> for each child of "X.001" after the join

meshVars == <<pc, vert_count, num_materials, use_dup_tris, faces, bm_verts,
              bm_faces, dup_faces, dup_verts, dup_verts_mapping, used_faces,
              unused_faces, loop_normals, material_usage_counts, pass2_calls,
              deform, mesh_materials, poly_material, material_index,
              material_usage_index, iter_pos>>

skelVars == <<spc, error, use_armature, use_parents, attach_model, merge_skeleton,
              has_skel_old, old_bones, model_bones, edit_bones, bone_i, skel_obj,
              warned, mesh_armature, suffixed_children>>

vars == <<meshVars, skelVars>>

\* ------------------------------------------------------------ geometry
Range(s) == {s[i] : i \in 1..Len(s)}

\* A FaceIndex holds a vertex reference and a per-corner normal.  The normal
\* of corner k (file order) of face id is the token <<id, k>>.
FaceIndex(v, id, k) == [vertex |-> v, normal |-> <<id, k>>]

\* A face as the reader hands it over: three corners in file order.
NewFace(id, vs, m) ==
    [id |-> id, file |-> vs, material_id |-> m,
     indices |-> <<FaceIndex(vs[1], id, 1), FaceIndex(vs[2], id, 2),
                   FaceIndex(vs[3], id, 3)>>]

\* "Fix the winding order": the 2nd and 3rd FaceIndex trade places.
FixWinding(face) ==
    [face EXCEPT !.indices = <<face.indices[1], face.indices[3], face.indices[2]>>]

\* [index.vertex for index in face.indices]
FaceVerts(face) ==
    <<face.indices[1].vertex, face.indices[2].vertex, face.indices[3].vertex>>

\* Mutant: bm.faces.new only rejects a face that exists already.
FacesNewRaisesExistingOnly(bmf, tri) ==
    \E k \in 1..Len(bmf) : Range(bmf[k].verts) = Range(tri)

\* bm.faces.new(verts) raises ValueError when a vertex is used twice or when
\* a face on the same three vertices exists already.
FacesNewRaises(bmf, tri) ==
    \/ Cardinality(Range(tri)) < 3
    \/ \E k \in 1..Len(bmf) : Range(bmf[k].verts) = Range(tri)

\* Face.isValid(): the three vertex indices are pairwise distinct.
isValid(face) == Cardinality(Range(FaceVerts(face))) = 3

\* Mutant: setup_tri forgets the usage counter.
setup_triNoCount(st, face) ==
    [bm_faces |-> Append(st.bm_faces,
                         [verts |-> FaceVerts(face),
                          material_index |-> face.material_id]),
     material_usage_counts |-> st.material_usage_counts,
     loop_normals |-> st.loop_normals \o
         <<face.indices[1].normal, face.indices[2].normal, face.indices[3].normal>>,
     used_faces |-> Append(st.used_faces, face)]

\* setup_tri(f): material, usage counter, loop normals, used_faces.
\* st carries bm_faces, material_usage_counts, loop_normals and used_faces.
setup_tri(st, face) ==
    [bm_faces |-> Append(st.bm_faces,
                         [verts |-> FaceVerts(face),
                          material_index |-> face.material_id]),
     material_usage_counts |->
         [st.material_usage_counts EXCEPT ![face.material_id + 1] = @ + 1],
     loop_normals |-> st.loop_normals \o
         <<face.indices[1].normal, face.indices[2].normal, face.indices[3].normal>>,
     used_faces |-> Append(st.used_faces, face)]

\* Mutant: a duplicate is allocated for every corner, cached or not.
DupCornerNoCache(d, k) ==
    LET vert == d.face.indices[k].vertex
        mapping == [d.mapping EXCEPT ![vert + 1] = Len(d.dup_verts) + vert_count]
        dverts == Append(d.dup_verts, vert)
    IN  [mapping |-> mapping, dup_verts |-> dverts,
         face |-> [d.face EXCEPT !.indices[k].vertex = mapping[vert + 1]]]

\* Mutant: the duplicate index is derived from the vertex index, not from the
\* length of dup_verts.
DupCornerByVertex(d, k) ==
    LET vert == d.face.indices[k].vertex
        fresh == d.mapping[vert + 1] = None
        mapping == IF fresh
                   THEN [d.mapping EXCEPT ![vert + 1] = vert + vert_count]
                   ELSE d.mapping
        dverts == IF fresh THEN Append(d.dup_verts, vert) ELSE d.dup_verts
    IN  [mapping |-> mapping, dup_verts |-> dverts,
         face |-> [d.face EXCEPT !.indices[k].vertex = mapping[vert + 1]]]

\* One corner of a deferred face: allocate the duplicate on first use, then
\* rewrite the corner.  d carries the mapping, dup_verts and the face.
DupCorner(d, k) ==
    LET vert == d.face.indices[k].vertex
        fresh == d.mapping[vert + 1] = None
        mapping == IF fresh
                   THEN [d.mapping EXCEPT ![vert + 1] = Len(d.dup_verts) + vert_count]
                   ELSE d.mapping
        dverts == IF fresh THEN Append(d.dup_verts, vert) ELSE d.dup_verts
    IN  [mapping |-> mapping, dup_verts |-> dverts,
         face |-> [d.face EXCEPT !.indices[k].vertex = mapping[vert + 1]]]

\* for index in face.indices: ... (the three corners in order)
DupFace(mapping, dverts, face) ==
    DupCorner(DupCorner(DupCorner(
        [mapping |-> mapping, dup_verts |-> dverts, face |-> face], 1), 2), 3)

\* ------------------------------------------------------------- actions
\* One iteration of "for face_index, face in enumerate(sub_mesh.faces)".
FirstPassFace(vs, m) ==
    /\ pc = "pass1"
    /\ Len(faces) < MaxFaces
    /\ LET face == FixWinding(NewFace(Len(faces) + 1, vs, m))
           tri == FaceVerts(face)
       IN  IF ~FacesNewRaises(bm_faces, tri)
           THEN LET st == setup_tri([bm_faces |-> bm_faces,
                                     material_usage_counts |-> material_usage_counts,
                                     loop_normals |-> loop_normals,
                                     used_faces |-> used_faces], face)
                IN  /\ faces' = Append(faces, face)
                    /\ bm_faces' = st.bm_faces
                    /\ material_usage_counts' = st.material_usage_counts
                    /\ loop_normals' = st.loop_normals
                    /\ used_faces' = st.used_faces
                    /\ UNCHANGED <<unused_faces, dup_faces, dup_verts, dup_verts_mapping>>
           ELSE /\ UNCHANGED <<bm_faces, material_usage_counts, loop_normals, used_faces>>
                /\ IF ~isValid(face)
                   THEN /\ faces' = Append(faces, face)
                        /\ unused_faces' = Append(unused_faces, face)
                        /\ UNCHANGED <<dup_faces, dup_verts, dup_verts_mapping>>
                   ELSE LET d == DupFace(dup_verts_mapping, dup_verts, face)
                        IN  /\ faces' = Append(faces, d.face)
                            /\ unused_faces' = Append(unused_faces, d.face)
                            /\ dup_verts_mapping' = d.mapping
                            /\ dup_verts' = d.dup_verts
                            /\ dup_faces' = Append(dup_faces, d.face)
    /\ UNCHANGED <<pc, vert_count, num_materials, use_dup_tris, bm_verts,
                   pass2_calls, deform, mesh_materials, poly_material,
                   material_index, material_usage_index, iter_pos>>
    /\ UNCHANGED skelVars

\* for face in dup_faces: try bm.faces.new(...) / except ValueError: pass /
\* else: setup_tri(f).  st carries what setup_tri writes, plus the calls made.
RECURSIVE SecondPass(_, _)
SecondPass(st, k) ==
    IF k > Len(dup_faces) THEN st
    ELSE LET face == dup_faces[k]
             tri == FaceVerts(face)
             called == [st EXCEPT !.calls = Append(@, tri)]
         IN  IF FacesNewRaises(st.bm_faces, tri)
             THEN SecondPass(called, k + 1)
             ELSE SecondPass(setup_tri(called, face) @@ called, k + 1)

\* for face in unused_faces: sub_mesh.faces.remove(face)
RemoveUnused(fs, unused) == SelectSeq(fs, LAMBDA f : f \notin Range(unused))

\* Mutant: the weights of the duplicates are written whatever use_dup_tris is.
VertexWeightsAlways(dups, withDups) ==
    {<<v, v>> : v \in 0..(vert_count - 1)}
    \cup {<<(k - 1) + vert_count, dups[k]>> : k \in 1..Len(dups)}

\* Vertex weights: every source vert's weights go to the host vertex of the
\* same index, and, with use_dup_tris, every duplicate's to index + offset.
VertexWeights(dups, withDups) ==
    {<<v, v>> : v \in 0..(vert_count - 1)}
    \cup (IF withDups
          THEN {<<(k - 1) + vert_count, dups[k]>> : k \in 1..Len(dups)}
          ELSE {})

\* Mutant: the iterator stops at the current length of the shrinking list.
MaterialsIterValidLive(n, pos, len) == pos < len

\* The removal loop iterates over mesh.materials while popping from it.  The
\* host's iterator over the material array is set up when the loop starts: it
\* yields as many items as the list had then (n), whatever is popped meanwhile.
MaterialsIterValid(n, pos, len) == pos < n

\* mesh.materials.pop(index=i): the slot leaves the list and the host shifts
\* the material index of every polygon that pointed past it.
MaterialsPop(mats, i) ==
    [k \in 1..(Len(mats) - 1) |-> IF k <= i THEN mats[k] ELSE mats[k + 1]]

PolyIndexRemove(pm, i) ==
    [k \in 1..Len(pm) |-> IF pm[k] # 0 /\ pm[k] >= i THEN pm[k] - 1 ELSE pm[k]]

\* Lines 311-351: unused faces leave sub_mesh.faces, the second pass runs if
\* use_dup_tris, weights are written, materials are appended, bm.to_mesh, and
\* the removal loop is entered.
FinishPasses ==
    /\ pc = "pass1"
    /\ LET fs == RemoveUnused(faces, unused_faces)
           st0 == [bm_faces |-> bm_faces,
                   material_usage_counts |-> material_usage_counts,
                   loop_normals |-> loop_normals,
                   used_faces |-> used_faces,
                   calls |-> <<>>]
           st == IF use_dup_tris THEN SecondPass(st0, 1) ELSE st0
       IN  /\ faces' = fs
           /\ bm_verts' = IF use_dup_tris THEN bm_verts \o dup_verts ELSE bm_verts
           /\ bm_faces' = st.bm_faces
           /\ material_usage_counts' = st.material_usage_counts
           /\ loop_normals' = st.loop_normals
           /\ used_faces' = st.used_faces
           /\ pass2_calls' = st.calls
           /\ deform' = VertexWeights(dup_verts, use_dup_tris)
           /\ mesh_materials' = [k \in 1..num_materials |-> k - 1]
           /\ poly_material' = [k \in 1..Len(st.bm_faces) |-> st.bm_faces[k].material_index]
    /\ material_index' = 0
    /\ material_usage_index' = 0
    /\ iter_pos' = 0
    /\ pc' = IF MaterialsIterValid(num_materials, 0, num_materials)
             THEN "compact" ELSE "done"
    /\ UNCHANGED <<vert_count, num_materials, use_dup_tris, dup_faces, dup_verts,
                   dup_verts_mapping, unused_faces>>
    /\ UNCHANGED skelVars

\* One iteration of "for material in mesh.materials" (lines 352-359).
CompactStep ==
    /\ pc = "compact"
    /\ IF material_usage_counts[material_usage_index + 1] = 0
       THEN /\ mesh_materials' = MaterialsPop(mesh_materials, material_index)
            /\ poly_material' = PolyIndexRemove(poly_material, material_index)
            /\ UNCHANGED material_index
       ELSE /\ material_index' = material_index + 1
            /\ UNCHANGED <<mesh_materials, poly_material>>
    /\ material_usage_index' = material_usage_index + 1
    /\ iter_pos' = iter_pos + 1
    /\ pc' = IF MaterialsIterValid(num_materials, iter_pos + 1, Len(mesh_materials'))
             THEN "compact" ELSE "done"
    /\ UNCHANGED <<vert_count, num_materials, use_dup_tris, faces, bm_verts,
                   bm_faces, dup_faces, dup_verts, dup_verts_mapping, used_faces,
                   unused_faces, loop_normals, material_usage_counts,
                   pass2_calls, deform>>
    /\ UNCHANGED skelVars

\* ---------------------------------------------------------------- Init
\* The skeleton part of load() has not started.
NoObject == [exists |-> FALSE, parent |-> "none", parent_bone |-> <<>>,
             parent_type |-> "OBJECT", location |-> <<0, 0, 0>>]

SkelNotStarted ==
    /\ spc = "idle"
    /\ error = ""
    /\ use_armature = FALSE
    /\ use_parents = FALSE
    /\ attach_model = FALSE
    /\ merge_skeleton = FALSE
    /\ has_skel_old = FALSE
    /\ old_bones = <<>>
    /\ model_bones = <<>>
    /\ edit_bones = <<>>
    /\ bone_i = 0
    /\ skel_obj = NoObject
    /\ warned = FALSE
    /\ mesh_armature = "none"
    /\ suffixed_children = {}

\* load() reaches the face loop of a sub-mesh with vert_count verts inserted.
InitMesh ==
    /\ pc = "pass1"
    /\ vert_count \in 1..MaxVerts
    /\ num_materials \in 1..MaxMeshMaterials
    /\ use_dup_tris \in BOOLEAN
    /\ faces = <<>>
    /\ bm_verts = [k \in 1..vert_count |-> k - 1]
    /\ bm_faces = <<>>
    /\ dup_faces = <<>>
    /\ dup_verts = <<>>
    /\ dup_verts_mapping = [k \in 1..vert_count |-> None]
    /\ used_faces = <<>>
    /\ unused_faces = <<>>
    /\ loop_normals = <<>>
    /\ material_usage_counts = [k \in 1..num_materials |-> 0]
    /\ pass2_calls = <<>>
    /\ deform = {}
    /\ mesh_materials = <<>>
    /\ poly_material = <<>>
    /\ material_index = 0
    /\ material_usage_index = 0
    /\ iter_pos = 0
    /\ SkelNotStarted

Triples == {<<a, b, c>> : a \in 0..(vert_count - 1), b \in 0..(vert_count - 1),
                          c \in 0..(vert_count - 1)}

NextMesh ==
    \/ \E vs \in Triples, m \in 0..(num_materials - 1) : FirstPassFace(vs, m)
    \/ FinishPasses
    \/ CompactStep

SpecMesh == InitMesh /\ [][NextMesh]_vars

\* A sub-mesh of disjoint triangles, one per entry of ms (its material slot),
\* as load() holds it when the removal loop starts: every face was accepted
\* in the first pass and nothing was deferred.
RECURSIVE DisjointTris(_, _)
DisjointTris(ms, k) ==
    IF k = 0
    THEN [bm_faces |-> <<>>, material_usage_counts |-> [i \in 1..num_materials |-> 0],
          loop_normals |-> <<>>, used_faces |-> <<>>]
    ELSE setup_tri(DisjointTris(ms, k - 1),
                   FixWinding(NewFace(k, <<3 * k - 3, 3 * k - 2, 3 * k - 1>>, ms[k])))

InitMat ==
    /\ pc = "compact"
    /\ num_materials \in 1..MaxSlots
    /\ use_dup_tris \in BOOLEAN
    /\ \E n \in 0..MaxTris : \E ms \in [1..n -> 0..(num_materials - 1)] :
          LET st == DisjointTris(ms, n)
          IN  /\ vert_count = 3 * n
              /\ bm_verts = [k \in 1..(3 * n) |-> k - 1]
              /\ bm_faces = st.bm_faces
              /\ used_faces = st.used_faces
              /\ faces = st.used_faces
              /\ loop_normals = st.loop_normals
              /\ material_usage_counts = st.material_usage_counts
              /\ poly_material = [k \in 1..n |-> ms[k]]
              /\ dup_verts_mapping = [k \in 1..(3 * n) |-> None]
              /\ deform = {<<v, v>> : v \in 0..(3 * n - 1)}
    /\ dup_faces = <<>>
    /\ dup_verts = <<>>
    /\ unused_faces = <<>>
    /\ pass2_calls = <<>>
    /\ mesh_materials = [k \in 1..num_materials |-> k - 1]
    /\ material_index = 0
    /\ material_usage_index = 0
    /\ iter_pos = 0
    /\ SkelNotStarted

NextMat == CompactStep

SpecMat == InitMat /\ [][NextMat]_vars

\* ------------------------------------------------------------- claims
\* Original vertex indices referenced by the deferred faces.
DeferredOriginals == UNION {Range(dup_faces[k].file) : k \in 1..Len(dup_faces)}

PassesDone == pc \in {"compact", "done"}

\* C1: after the first pass and the optional second pass, the host mesh has
\* at most 2 x vert_count vertices, and len(dup_verts) is at most the number
\* of distinct original vertex indices the deferred faces reference.
C1_VertexBound ==
    PassesDone =>
        /\ Len(bm_verts) <= 2 * vert_count
        /\ Len(dup_verts) <= Cardinality(DeferredOriginals)

\* Two faces were deferred, every source vertex got a duplicate and the
\* second pass appended them.
C1_Witness ==
    /\ pc = "done" /\ use_dup_tris
    /\ Len(dup_faces) >= 2
    /\ Len(dup_verts) = vert_count
    /\ Len(bm_verts) = 2 * vert_count

Degenerate(face) == Cardinality(Range(face.file)) < 3

\* C2: every host triangle has three pairwise distinct vertices; a source
\* face with two equal vertex indices is discarded (it is in unused_faces and
\* never in used_faces), is never deferred, and allocates no duplicate: every
\* duplicate belongs to an original that a deferred face references.
C2_NoDegenerateTriangle ==
    /\ \A k \in 1..Len(bm_faces) : Cardinality(Range(bm_faces[k].verts)) = 3
    /\ \A f \in Range(used_faces) \cup Range(dup_faces) : ~Degenerate(f)
    /\ \A f \in Range(faces) : Degenerate(f) => f \in Range(unused_faces)
    /\ PassesDone => \A f \in Range(faces) : ~Degenerate(f)
    /\ Range(dup_verts) \subseteq DeferredOriginals

\* A degenerate face was read and dropped, and both passes made a triangle.
C2_Witness ==
    /\ pc = "done"
    /\ \E f \in Range(unused_faces) : Degenerate(f)
    /\ \E k \in 1..Len(bm_faces) : \A i \in 1..3 : bm_faces[k].verts[i] >= vert_count
    /\ \E k \in 1..Len(bm_faces) : \A i \in 1..3 : bm_faces[k].verts[i] < vert_count

\* The triangle bm.faces.new makes of a face, with its material.
TriOf(face) == [verts |-> FaceVerts(face), material_index |-> face.material_id]

\* The duplicate vertices of a deferred face: the duplicate of each original,
\* in winding-corrected corner order.
DupTri(face) ==
    <<dup_verts_mapping[face.file[1] + 1], dup_verts_mapping[face.file[3] + 1],
      dup_verts_mapping[face.file[2] + 1]>>

\* C6: with use_dup_tris = false the host mesh has exactly vert_count
\* vertices, its triangles are exactly the faces accepted in the first pass
\* (those left in sub_mesh.faces), bm.faces.new is not called again and no
\* weight is written past the originals; with use_dup_tris = true the
\* duplicates follow the originals in bm.verts and the second pass calls
\* bm.faces.new once per deferred face, in deferral order, on its duplicates.
C6_ReplayOnlyWhenEnabled ==
    PassesDone =>
        IF ~use_dup_tris
        THEN /\ Len(bm_verts) = vert_count
             /\ bm_faces = [k \in 1..Len(faces) |-> TriOf(faces[k])]
             /\ pass2_calls = <<>>
             /\ \A w \in deform : w[1] < vert_count
        ELSE /\ bm_verts = [k \in 1..vert_count |-> k - 1] \o dup_verts
             /\ pass2_calls = [k \in 1..Len(dup_faces) |-> DupTri(dup_faces[k])]
             /\ \A k \in 1..Len(pass2_calls) : \A i \in 1..3 :
                    /\ pass2_calls[k][i] >= vert_count
                    /\ pass2_calls[k][i] < Len(bm_verts)
             /\ \A k \in 1..Len(dup_verts) : <<vert_count + k - 1, dup_verts[k]>> \in deform

\* Faces were deferred and use_dup_tris is off: they are dropped.
C6_Witness ==
    /\ pc = "done" /\ ~use_dup_tris
    /\ Len(dup_faces) >= 2
    /\ Len(bm_faces) = 1

\* Position (from 0) of original vertex v in dup_verts.
DupPosition(v) == (CHOOSE k \in 1..Len(dup_verts) : dup_verts[k] = v) - 1

DupMappingOk ==
    /\ \A k, l \in 1..Len(dup_verts) : dup_verts[k] = dup_verts[l] => k = l
    /\ \A v \in 0..(vert_count - 1) :
          IF v \in Range(dup_verts)
          THEN dup_verts_mapping[v + 1] = vert_count + DupPosition(v)
          ELSE dup_verts_mapping[v + 1] = None
    /\ \A k \in 1..Len(dup_faces) : FaceVerts(dup_faces[k]) = DupTri(dup_faces[k])

DupMappingStable ==
    \A v \in 1..vert_count :
        dup_verts_mapping[v] # None => dup_verts_mapping'[v] = dup_verts_mapping[v]

\* C9: at every point of the first pass dup_verts_mapping gives each original
\* vertex at most one duplicate index, equal to vert_count plus the position
\* of the original in dup_verts (so distinct originals get distinct indices),
\* every corner of every deferred face holds the duplicate index of its
\* original, and an assigned entry never changes.
C9_DupMapping == [](DupMappingOk) /\ [][DupMappingStable]_vars

\* Three faces on the same vertices, the last two deferred with their
\* corners in different orders.
C9_Witness ==
    /\ pc = "pass1"
    /\ Len(dup_faces) = 2
    /\ Len(dup_verts) = 3
    /\ dup_faces[1].file # dup_faces[2].file
    /\ dup_verts_mapping # <<3, 4, 5>>

\* C10: after both passes loop_normals has 3 entries per host triangle, the
\* k-th group holds the corner normals of used_faces[k] in winding-corrected
\* order (file corners 1, 3, 2), used_faces[k] is the face the k-th triangle
\* was made from, and material_usage_counts[m] is the number of host
\* triangles with material slot m.
C10_LoopBuffers ==
    PassesDone =>
        /\ Len(loop_normals) = 3 * Len(bm_faces)
        /\ Len(used_faces) = Len(bm_faces)
        /\ \A k \in 1..Len(bm_faces) :
              LET f == used_faces[k]
              IN  /\ bm_faces[k] = TriOf(f)
                  /\ \A i \in 1..3 : FaceVerts(f)[i] \in
                        {<<f.file[1], f.file[3], f.file[2]>>[i], DupTri(f)[i]}
                  /\ SubSeq(loop_normals, 3 * k - 2, 3 * k) =
                        <<<<f.id, 1>>, <<f.id, 3>>, <<f.id, 2>>>>
        /\ \A k, l \in 1..Len(used_faces) : used_faces[k].id = used_faces[l].id => k = l
        /\ \A m \in 0..(num_materials - 1) :
              material_usage_counts[m + 1] =
                  Cardinality({k \in 1..Len(bm_faces) : bm_faces[k].material_index = m})

\* A triangle of each pass, on different material slots.
C10_Witness ==
    /\ pc = "done"
    /\ Len(bm_faces) = 2
    /\ used_faces[2] \in Range(dup_faces)
    /\ material_usage_counts = <<1, 1>>

\* Global slots with a usage count above 0, in their original order.
UsedSlots ==
    SelectSeq([k \in 1..num_materials |-> k - 1],
              LAMBDA m : material_usage_counts[m + 1] > 0)

NoBone == <<>>
NewId(k) == <<"new", k>>
OldId(k) == <<"old", k>>
Suffix == ".001"
WithSuffix(name) == Append(name, Suffix)
EndsWithSuffix(name) == Len(name) > 0 /\ name[Len(name)] = Suffix

\* Bone names of the model file and of the target skeleton.
ModelNames == {"j_gun", "J_GUN", "tag_weapon", "tag_weapon_right", "j_spine"}
TargetNames == {"j_gun", "tag_weapon", "tag_weapon_right", "j_spine"}

\* bone.name.lower()
Lower(n) == IF n = "J_GUN" THEN "j_gun" ELSE n

\* ebs[name], "name in ebs": position of the bone called name, 0 if none.
Lookup(ebs, name) ==
    IF \E k \in 1..Len(ebs) : ebs[k].name = name
    THEN CHOOSE k \in 1..Len(ebs) : ebs[k].name = name
    ELSE 0

HasBone(ebs, name) == Lookup(ebs, name) # 0

IndexOfId(ebs, id) == CHOOSE k \in 1..Len(ebs) : ebs[k].id = id

\* bone.parent = parent
SetParent(ebs, id, parentId) ==
    [k \in 1..Len(ebs) |-> IF ebs[k].id = id THEN [ebs[k] EXCEPT !.parent = parentId]
                           ELSE ebs[k]]

\* ebs.remove(bone): the bone leaves the collection; a bone still parented
\* to it becomes a root.
Remove(ebs, id) ==
    LET kept == SelectSeq(ebs, LAMBDA b : b.id # id)
    IN  [k \in 1..Len(kept) |-> IF kept[k].parent = id
                                THEN [kept[k] EXCEPT !.parent = NoBone]
                                ELSE kept[k]]

\* The name "false" of line 137 comes from the star import of
\* pv_py_utils.stdlib: the boolean False.
false == FALSE

\* Lines 137-145 and 446-458: the options are gated, and with use_armature
\* the new skeleton object is created.
Begin ==
    /\ spc = "begin"
    /\ LET attach1 == IF use_armature = false THEN FALSE ELSE attach_model
           attach2 == IF ~has_skel_old THEN FALSE ELSE attach1
       IN  /\ attach_model' = attach2
           /\ merge_skeleton' = IF ~attach2 THEN FALSE ELSE merge_skeleton
    /\ IF use_armature
       THEN /\ skel_obj' = [NoObject EXCEPT !.exists = TRUE]
            /\ spc' = IF Len(model_bones) = 0 THEN "attach" ELSE "build"
       ELSE /\ UNCHANGED skel_obj
            /\ spc' = "done"
    /\ UNCHANGED <<error, use_armature, use_parents, has_skel_old, old_bones,
                   model_bones, edit_bones, bone_i, warned, mesh_armature,
                   suffixed_children>>
    /\ UNCHANGED meshVars

\* One iteration of "for bone in model.bones" (lines 460-475).  The parent
\* is looked up by index among the bones created so far: an index past them
\* raises IndexError, which ends load().
BuildBone ==
    /\ spc = "build"
    /\ bone_i < Len(model_bones)
    /\ LET bone == model_bones[bone_i + 1]
           edit_bone == [id |-> NewId(bone_i + 1), name |-> <<Lower(bone.name)>>,
                         parent |-> NoBone]
           ebs == Append(edit_bones, edit_bone)
       IN  IF bone.parent # -1 /\ bone.parent >= Len(ebs)
           THEN /\ edit_bones' = ebs
                /\ error' = "IndexError:473"
                /\ spc' = "error"
                /\ UNCHANGED bone_i
           ELSE /\ edit_bones' = IF bone.parent # -1 /\ use_parents
                                 THEN SetParent(ebs, edit_bone.id, ebs[bone.parent + 1].id)
                                 ELSE ebs
                /\ bone_i' = bone_i + 1
                /\ spc' = IF bone_i + 1 = Len(model_bones) THEN "attach" ELSE "build"
                /\ UNCHANGED error
    /\ UNCHANGED <<use_armature, use_parents, attach_model, merge_skeleton,
                   has_skel_old, old_bones, model_bones, skel_obj, warned,
                   mesh_armature, suffixed_children>>
    /\ UNCHANGED meshVars

\* Mutant: a bone of skel_old with the same name is preferred to the
\* j_gun / tag_weapon rules.
ParentBoneSameNameFirst(first, old) ==
    IF HasBone(old, first) THEN first
    ELSE IF first = <<"j_gun">> THEN <<"tag_weapon">>
    ELSE IF first = <<"tag_weapon">> THEN <<"tag_weapon_right">>
    ELSE old[1].name

\* Lines 503-516: the bone of skel_old the new skeleton is parented to.
ParentBone(first, old) ==
    IF first = <<"j_gun">> THEN <<"tag_weapon">>
    ELSE IF first = <<"tag_weapon">> THEN <<"tag_weapon_right">>
    ELSE IF HasBone(old, first) THEN first
    ELSE old[1].name

\* Mutant: the new skeleton is attached whenever an armature is active.
AttachRequestedAnyArmature(attach, skel_old_present) == skel_old_present

\* Line 489: if attach_model and skel_old is not None.
AttachRequested(attach, skel_old_present) == attach /\ skel_old_present

\* Lines 477-521: the mesh objects get the new skeleton, and the new
\* skeleton is attached to skel_old.  pose.bones[0] raises IndexError on a
\* skeleton without bones.
Attach ==
    /\ spc = "attach"
    /\ mesh_armature' = "skel_obj"
    /\ IF AttachRequested(attach_model, has_skel_old)
       THEN IF Len(edit_bones) = 0
            THEN /\ skel_obj' = [skel_obj EXCEPT !.parent = "skel_old"]
                 /\ error' = "IndexError:503"
                 /\ spc' = "error"
                 /\ UNCHANGED warned
            ELSE LET first == edit_bones[1].name
                     fallback == /\ first # <<"j_gun">>
                                 /\ first # <<"tag_weapon">>
                                 /\ ~HasBone(old_bones, first)
                 IN  IF fallback /\ Len(old_bones) = 0
                     THEN /\ skel_obj' = [skel_obj EXCEPT !.parent = "skel_old"]
                          /\ warned' = TRUE
                          /\ error' = "IndexError:516"
                          /\ spc' = "error"
                     ELSE /\ skel_obj' = [skel_obj EXCEPT
                                             !.parent = "skel_old",
                                             !.parent_bone = ParentBone(first, old_bones),
                                             !.parent_type = "BONE",
                                             !.location = <<0, -1, 0>>]
                          /\ warned' = fallback
                          /\ spc' = IF merge_skeleton THEN "join" ELSE "done"
                          /\ UNCHANGED error
       ELSE /\ spc' = "done"
            /\ UNCHANGED <<skel_obj, warned, error>>
    /\ UNCHANGED <<use_armature, use_parents, attach_model, merge_skeleton,
                   has_skel_old, old_bones, model_bones, edit_bones, bone_i,
                   suffixed_children>>
    /\ UNCHANGED meshVars

\* join_objects([skel1_ob, skel2_ob]): the bones of the second skeleton are
\* added after those of the first; a bone whose name the first skeleton has
\* already is renamed by appending ".001".
JoinBones(old, new) ==
    old \o [k \in 1..Len(new) |->
               IF HasBone(old, new[k].name)
               THEN [new[k] EXCEPT !.name = WithSuffix(new[k].name)]
               ELSE new[k]]

\* Children of the suffixed bones of ebs, each with the unsuffixed name.
SuffixedChildren(ebs) ==
    {<<ebs[c].id, SubSeq(ebs[p].name, 1, Len(ebs[p].name) - 1)>> :
        <<c, p>> \in {<<c, p>> \in (1..Len(ebs)) \X (1..Len(ebs)) :
                        ebs[c].parent = ebs[p].id /\ EndsWithSuffix(ebs[p].name)}}

\* Lines 71-80 of join_armatures.
JoinObjects ==
    /\ spc = "join"
    /\ old_bones' = JoinBones(old_bones, edit_bones)
    /\ suffixed_children' = SuffixedChildren(old_bones')
    /\ edit_bones' = <<>>
    /\ skel_obj' = [skel_obj EXCEPT !.exists = FALSE]
    /\ spc' = "dedupe"
    /\ UNCHANGED <<error, use_armature, use_parents, attach_model, merge_skeleton,
                   has_skel_old, model_bones, bone_i, warned, mesh_armature>>
    /\ UNCHANGED meshVars

\* Mutant: the children are left on bone2 when it is removed.
reassign_childrenRemoveOnly(ebs, bone1, bone2) == Remove(ebs, bone2)

\* reassign_children(ebs, bone1, bone2): every child of bone2 is given to
\* bone1, then bone2 is removed.
reassign_children(ebs, bone1, bone2) ==
    Remove([k \in 1..Len(ebs) |-> IF ebs[k].parent = bone2
                                  THEN [ebs[k] EXCEPT !.parent = bone1]
                                  ELSE ebs[k]],
           bone2)

\* Lines 83-88: for bone in ebs, with ebs[bone.name + ".001"] removed inside
\* the loop.  The loop goes on with the bone that follows the current one in
\* the collection as the body left it.
RECURSIVE ReassignLoop(_, _)
ReassignLoop(ebs, i) ==
    IF i > Len(ebs) THEN ebs
    ELSE LET bone == ebs[i]
             t == Lookup(ebs, WithSuffix(bone.name))
         IN  IF t = 0
             THEN ReassignLoop(ebs, i + 1)
             ELSE LET after == reassign_children(ebs, bone.id, ebs[t].id)
                  IN  ReassignLoop(after, IndexOfId(after, bone.id) + 1)

\* Lines 91-93: for bone in ebs: remove the bones whose name ends with ".001".
RECURSIVE RemoveLoop(_, _)
RemoveLoop(ebs, i) ==
    IF i > Len(ebs) THEN ebs
    ELSE IF EndsWithSuffix(ebs[i].name)
         THEN RemoveLoop(Remove(ebs, ebs[i].id), i)
         ELSE RemoveLoop(ebs, i + 1)

\* Lines 82-93 of join_armatures.
Dedupe ==
    /\ spc = "dedupe"
    /\ old_bones' = RemoveLoop(ReassignLoop(old_bones, 1), 1)
    /\ spc' = "reparent"
    /\ UNCHANGED <<error, use_armature, use_parents, attach_model, merge_skeleton,
                   has_skel_old, model_bones, edit_bones, bone_i, skel_obj,
                   warned, mesh_armature, suffixed_children>>
    /\ UNCHANGED meshVars

\* Mutant: the tag_weapon rule is tried first.
SpecialCaseTagWeaponFirst(ebs) ==
    IF HasBone(ebs, <<"tag_weapon">>) /\ HasBone(ebs, <<"tag_weapon_right">>)
    THEN SetParent(ebs, ebs[Lookup(ebs, <<"tag_weapon">>)].id,
                   ebs[Lookup(ebs, <<"tag_weapon_right">>)].id)
    ELSE IF HasBone(ebs, <<"j_gun">>) /\ HasBone(ebs, <<"tag_weapon">>)
    THEN SetParent(ebs, ebs[Lookup(ebs, <<"j_gun">>)].id,
                   ebs[Lookup(ebs, <<"tag_weapon">>)].id)
    ELSE ebs

\* Lines 95-98: the forced parents of j_gun and tag_weapon.
SpecialCase(ebs) ==
    IF HasBone(ebs, <<"j_gun">>) /\ HasBone(ebs, <<"tag_weapon">>)
    THEN SetParent(ebs, ebs[Lookup(ebs, <<"j_gun">>)].id,
                   ebs[Lookup(ebs, <<"tag_weapon">>)].id)
    ELSE IF HasBone(ebs, <<"tag_weapon">>) /\ HasBone(ebs, <<"tag_weapon_right">>)
    THEN SetParent(ebs, ebs[Lookup(ebs, <<"tag_weapon">>)].id,
                   ebs[Lookup(ebs, <<"tag_weapon_right">>)].id)
    ELSE ebs

\* Lines 95-114 of join_armatures: the forced parents, then the mesh objects
\* are pointed at skel1_ob.
Reparent ==
    /\ spc = "reparent"
    /\ old_bones' = SpecialCase(old_bones)
    /\ mesh_armature' = "skel_old"
    /\ spc' = "done"
    /\ UNCHANGED <<error, use_armature, use_parents, attach_model, merge_skeleton,
                   has_skel_old, model_bones, edit_bones, bone_i, skel_obj,
                   warned, suffixed_children>>
    /\ UNCHANGED meshVars

\* The sub-mesh part of load() is not explored.
MeshNotStarted ==
    /\ pc = "idle"
    /\ vert_count = 0
    /\ num_materials = 0
    /\ use_dup_tris = FALSE
    /\ faces = <<>>
    /\ bm_verts = <<>>
    /\ bm_faces = <<>>
    /\ dup_faces = <<>>
    /\ dup_verts = <<>>
    /\ dup_verts_mapping = <<>>
    /\ used_faces = <<>>
    /\ unused_faces = <<>>
    /\ loop_normals = <<>>
    /\ material_usage_counts = <<>>
    /\ pass2_calls = <<>>
    /\ deform = {}
    /\ mesh_materials = <<>>
    /\ poly_material = <<>>
    /\ material_index = 0
    /\ material_usage_index = 0
    /\ iter_pos = 0

\* Bone lists of a model file: names distinct once lower-cased, any parent
\* index from -1 to the last bone.
ModelBoneLists ==
    UNION {{bs \in [1..k -> [name : ModelNames, parent : -1..(k - 1)]] :
               \A i, j \in 1..k : Lower(bs[i].name) = Lower(bs[j].name) => i = j} :
           k \in 0..MaxBones}

\* Bone lists whose parents come before their children.
ParentsFirst(bs) == \A i \in 1..Len(bs) : bs[i].parent < i - 1

\* Skeletons already in the scene: distinct names, parents before children.
TargetBoneLists ==
    UNION {{bs \in [1..k -> [id : {OldId(i) : i \in 1..k},
                             name : {<<n>> : n \in TargetNames},
                             parent : {NoBone} \cup {OldId(i) : i \in 1..k}]] :
               /\ \A i \in 1..k : bs[i].id = OldId(i)
               /\ \A i \in 1..k : bs[i].parent \in {NoBone} \cup {OldId(j) : j \in 1..(i - 1)}
               /\ \A i, j \in 1..k : bs[i].name = bs[j].name => i = j} :
           k \in 0..MaxBones}

InitSkelCommon ==
    /\ spc = "begin"
    /\ error = ""
    /\ use_parents \in BOOLEAN
    /\ edit_bones = <<>>
    /\ bone_i = 0
    /\ skel_obj = NoObject
    /\ warned = FALSE
    /\ mesh_armature = "none"
    /\ suffixed_children = {}
    /\ MeshNotStarted

\* load() on any bone list, with no armature selected.
InitSkel ==
    /\ InitSkelCommon
    /\ use_armature \in BOOLEAN
    /\ attach_model \in BOOLEAN
    /\ merge_skeleton \in BOOLEAN
    /\ has_skel_old = FALSE
    /\ old_bones = <<>>
    /\ model_bones \in ModelBoneLists

NextSkel == Begin \/ BuildBone \/ Attach

SpecSkel == InitSkel /\ [][NextSkel]_vars

\* load() on a well-formed bone list, with or without an armature selected.
InitArm ==
    /\ InitSkelCommon
    /\ use_armature \in BOOLEAN
    /\ attach_model \in BOOLEAN
    /\ merge_skeleton \in BOOLEAN
    /\ has_skel_old \in BOOLEAN
    /\ old_bones \in (IF has_skel_old THEN TargetBoneLists ELSE {<<>>})
    /\ model_bones \in {bs \in ModelBoneLists : ParentsFirst(bs)}

NextArm == Begin \/ BuildBone \/ Attach \/ JoinObjects \/ Dedupe \/ Reparent

SpecArm == InitArm /\ [][NextArm]_vars

\* ------------------------------------------------- claims on the skeleton
JGun == <<"j_gun">>
TagWeapon == <<"tag_weapon">>
TagWeaponRight == <<"tag_weapon_right">>

\* Name of the parent of the bone called name, <<>> for a root.
ParentName(ebs, name) ==
    LET b == ebs[Lookup(ebs, name)]
    IN  IF b.parent = NoBone \/ ~(\E k \in 1..Len(ebs) : ebs[k].id = b.parent)
        THEN <<>>
        ELSE ebs[IndexOfId(ebs, b.parent)].name

\* The attachment block ran to its end and the new skeleton still exists.
AttachDone ==
    /\ spc \in {"join", "done"}
    /\ attach_model /\ has_skel_old /\ skel_obj.exists

\* C4: when the new skeleton is attached, its parent bone is "tag_weapon" if
\* its first bone is "j_gun", else "tag_weapon_right" if its first bone is
\* "tag_weapon", else its first bone's name if skel_old has a bone of that
\* name, else the name of skel_old's first bone, with a warning (and only
\* then); in every case the object is parented to skel_old with parent type
\* BONE and location (0, -1, 0).
C4_AttachBone ==
    AttachDone =>
        LET first == edit_bones[1].name
            same == \E k \in 1..Len(old_bones) : old_bones[k].name = first
        IN  /\ skel_obj.parent = "skel_old"
            /\ skel_obj.parent_type = "BONE"
            /\ skel_obj.location = <<0, -1, 0>>
            /\ first = JGun => skel_obj.parent_bone = TagWeapon
            /\ first = TagWeapon => skel_obj.parent_bone = TagWeaponRight
            /\ (first \notin {JGun, TagWeapon} /\ same) => skel_obj.parent_bone = first
            /\ (first \notin {JGun, TagWeapon} /\ ~same) =>
                   skel_obj.parent_bone = old_bones[1].name
            /\ warned <=> (first \notin {JGun, TagWeapon} /\ ~same)

\* The file calls the first bone "J_GUN" and skel_old has a "j_gun" of its
\* own: the new skeleton goes to "tag_weapon", not to the same-named bone.
C4_Witness ==
    /\ AttachDone /\ spc = "done"
    /\ model_bones[1].name = "J_GUN"
    /\ \E k \in 1..Len(old_bones) : old_bones[k].name = JGun
    /\ skel_obj.parent_bone = TagWeapon

Merged == spc = "done" /\ mesh_armature = "skel_old"

NoSuffixLeft == \A k \in 1..Len(old_bones) : ~EndsWithSuffix(old_bones[k].name)

\* The bone whose parent lines 95-98 force, <<>> if none.
Forced ==
    IF HasBone(old_bones, JGun) /\ HasBone(old_bones, TagWeapon) THEN JGun
    ELSE IF HasBone(old_bones, TagWeapon) /\ HasBone(old_bones, TagWeaponRight)
    THEN TagWeapon
    ELSE <<>>

\* C5 as stated: when join_armatures finishes no bone name ends with ".001",
\* and every remaining bone that was a child of "X.001" has "X" as parent.
C5_Stated ==
    Merged =>
        /\ NoSuffixLeft
        /\ \A k \in 1..Len(old_bones) : \A c \in suffixed_children :
              c[1] = old_bones[k].id =>
                  ParentName(old_bones, old_bones[k].name) = c[2]

\* C5 amended: when join_armatures finishes no bone name ends with ".001",
\* and every remaining bone that was a child of "X.001" has "X" as parent,
\* except the bone whose parent the last step forces (j_gun if j_gun and
\* tag_weapon exist, else tag_weapon if tag_weapon and tag_weapon_right do).
C5_CollisionsResolved ==
    Merged =>
        /\ NoSuffixLeft
        /\ \A k \in 1..Len(old_bones) : \A c \in suffixed_children :
              (c[1] = old_bones[k].id /\ old_bones[k].name # Forced) =>
                  ParentName(old_bones, old_bones[k].name) = c[2]

\* A bone of the new skeleton hung under a colliding bone and now hangs
\* under the bone of skel_old with that name.
C5_Witness ==
    /\ Merged
    /\ \E k \in 1..Len(old_bones) : \E c \in suffixed_children :
          /\ c[1] = old_bones[k].id
          /\ old_bones[k].name # Forced
          /\ ParentName(old_bones, old_bones[k].name) = c[2]
          /\ old_bones[k].id[1] = "new"
          /\ old_bones[k].parent[1] = "old"

\* C8: the last step of join_armatures gives j_gun the parent tag_weapon if
\* both exist; otherwise gives tag_weapon the parent tag_weapon_right if both
\* exist; otherwise changes no bone.
C8_Step ==
    spc = "reparent" =>
        IF HasBone(old_bones, JGun) /\ HasBone(old_bones, TagWeapon)
        THEN ParentName(old_bones', JGun) = TagWeapon
        ELSE IF HasBone(old_bones, TagWeapon) /\ HasBone(old_bones, TagWeaponRight)
        THEN ParentName(old_bones', TagWeapon) = TagWeaponRight
        ELSE old_bones' = old_bones

C8_ForcedParents == [][C8_Step]_vars

\* All three bones exist, j_gun came with the new skeleton and now hangs
\* under the tag_weapon of skel_old, and tag_weapon was left alone.
C8_Witness ==
    /\ Merged
    /\ suffixed_children = {}
    /\ HasBone(old_bones, JGun) /\ HasBone(old_bones, TagWeaponRight)
    /\ HasBone(old_bones, TagWeapon)
    /\ old_bones[Lookup(old_bones, JGun)].id[1] = "new"
    /\ old_bones[Lookup(old_bones, TagWeapon)].id[1] = "old"
    /\ ParentName(old_bones, JGun) = TagWeapon
    /\ ParentName(old_bones, TagWeapon) # TagWeaponRight

\* C7 as stated: once load() has left the bone-creation loop every source
\* bone has its host bone, whose parent is the host bone of index
\* bone.parent when use_parents is set and bone.parent is not -1 (earlier or
\* later index alike), and which is a root otherwise.
C7_ParentLinks ==
    (use_armature /\ spc \in {"attach", "done", "error"}) =>
        /\ Len(edit_bones) = Len(model_bones)
        /\ \A i \in 1..Len(model_bones) :
              IF use_parents /\ model_bones[i].parent # -1
              THEN edit_bones[i].parent = NewId(model_bones[i].parent + 1)
              ELSE edit_bones[i].parent = NoBone

\* Parent of the bone with this id, NoBone for a root or for a bone that is
\* not in ebs.
ParentOf(ebs, id) ==
    IF \E k \in 1..Len(ebs) : ebs[k].id = id
    THEN ebs[IndexOfId(ebs, id)].parent
    ELSE NoBone

\* The bone reached from id by n parent links.
RECURSIVE Climb(_, _, _)
Climb(ebs, id, n) ==
    IF n = 0 THEN id ELSE Climb(ebs, ParentOf(ebs, id), n - 1)

\* No cycle: from every bone, as many parent links as there are bones lead
\* past a root.
IsForest(ebs) ==
    \A k \in 1..Len(ebs) : Climb(ebs, ebs[k].id, Len(ebs)) = NoBone

\* C11 as stated: both input skeletons are forests, and when join_armatures
\* has finished the parent relation of the merged skeleton has no cycle,
\* also when tag_weapon is a descendant of j_gun or tag_weapon_right a
\* descendant of tag_weapon.
C11_MergedForest ==
    /\ (spc \in {"join", "dedupe", "reparent"}) =>
           (IsForest(old_bones) /\ IsForest(edit_bones))
    /\ Merged => IsForest(old_bones)

\* load() was asked to attach, builds a skeleton, and an armature is active.
Gate == use_armature /\ attach_model /\ has_skel_old

\* join_armatures is entered by this step.
JoinStep == skel_obj.exists /\ ~skel_obj'.exists

C12_Step ==
    /\ Gate' <=> Gate
    /\ spc = "begin" => (merge_skeleton' <=> (merge_skeleton /\ Gate))
    /\ spc # "begin" => (merge_skeleton' <=> merge_skeleton)
    /\ skel_obj'.exists => use_armature
    /\ skel_obj'.parent # "none" => Gate
    /\ JoinStep => (Gate /\ merge_skeleton /\ skel_obj.parent = "skel_old")
    /\ (old_bones' # old_bones \/ mesh_armature' = "skel_old") =>
           (Gate /\ merge_skeleton /\ skel_obj.parent = "skel_old")
    /\ ~Gate => (skel_obj'.parent = "none" /\ old_bones' = old_bones)

\* C12: join_armatures runs only after the attachment, and the attachment
\* only if use_armature is true, attach_model was requested and an armature
\* is active; for every other combination of the options the new skeleton,
\* if built, stays unparented and the target skeleton is not modified.
C12_OptionGating == [][C12_Step]_vars

\* An armature with bones is active and the skeleton of the file was built
\* without attach_model: load() has finished, the new skeleton has no parent
\* and the mesh objects are bound to it.
C12_Witness ==
    /\ spc = "done"
    /\ use_armature /\ has_skel_old /\ ~attach_model
    /\ Len(old_bones) > 0
    /\ skel_obj.exists /\ Len(edit_bones) > 0
    /\ skel_obj.parent = "none"
    /\ mesh_armature = "skel_obj"

====
